---- MODULE Spec2Model ----
(***************************************************************************)
(* Model of package signoz (v1/trace/signoz): the span-type options and    *)
(* their fold (spantype.go) and the tracing wrapper built on them          *)
(* (signoz.go).                                                            *)
(*                                                                         *)
(* A span is modelled by what the wrapper hands to the tracing SDK: the    *)
(* tracer it was started on, its name, its span kind, the context it was   *)
(* started from, and the ordered list of calls made on the trace.Span      *)
(* interface.  A Go string compared character by character (the insecure   *)
(* flag) is a sequence of one-character strings; every other string is a   *)
(* TLA+ string.                                                            *)
(***************************************************************************)
EXTENDS Integers, Sequences, FiniteSets, TLC

VARIABLES
    alive,      \* FALSE once log.Fatal / an unrecovered panic ended the process
    tracer,     \* the package-level  var tracer trace.Tracer
    provider,   \* the global tracer provider set by otel.SetTracerProvider
    instances,  \* the *signoz values returned by New, in order of construction
    spans,      \* the spans started by CreateSpan, in order of creation
    lastCall,   \* the public operation executed last, with its arguments and locals
    steps       \* number of public operations executed so far

vars == <<alive, tracer, provider, instances, spans, lastCall, steps>>

----------------------------------------------------------------------------
(* Bounds of the model *)

MaxSteps == 3
MaxInstances == 2
MaxSpans == 2
MaxOpts == 2
MaxInsecureLen == 2

----------------------------------------------------------------------------
(* spantype.go: the SpanType enumeration and the DatabasePlatform values *)

Unspecified == 0
Internal == 1
Server == 2
Client == 3
Producer == 4
Consumer == 5

SpanType == {Unspecified, Internal, Server, Client, Producer, Consumer}

Other == "other_sql"
MySQL == "mysql"
MariaDB == "mariadb"
Redis == "redis"

\* semconv.DBSystemMySQL.Key and semconv.HTTPURLKey of semconv v1.4.0
DBSystemKey == "db.system"
HTTPURLKey == "http.url"

\* The zero-initialised configuration CreateSpan starts the fold from.
DefaultConfig ==
    [SpanType |-> Unspecified, DatabasePlatform |-> "", ExternalURL |-> ""]

\* Variant of spanTypeMapper with the Server and Client entries exchanged.
spanTypeMapperSwapped(spanType) ==
    CASE spanType = Unspecified -> "SpanKindUnspecified"
      [] spanType = Internal    -> "SpanKindInternal"
      [] spanType = Server      -> "SpanKindClient"
      [] spanType = Client      -> "SpanKindServer"
      [] spanType = Producer    -> "SpanKindProducer"
      [] spanType = Consumer    -> "SpanKindConsumer"

\* spanTypeMapper: SpanType -> trace.SpanKind
spanTypeMapper(spanType) ==
    CASE spanType = Unspecified -> "SpanKindUnspecified"
      [] spanType = Internal    -> "SpanKindInternal"
      [] spanType = Server      -> "SpanKindServer"
      [] spanType = Client      -> "SpanKindClient"
      [] spanType = Producer    -> "SpanKindProducer"
      [] spanType = Consumer    -> "SpanKindConsumer"

\* A SpanTypeOption value: the closure returned by a constructor, with the
\* argument it captured.  NilOption is the nil interface value.
DatabaseCalls(databasePlatform) ==
    [fn |-> "DatabaseCalls", databasePlatform |-> databasePlatform]

ExternalCalls(externalURL) ==
    [fn |-> "ExternalCalls", externalURL |-> externalURL]

NilOption == [fn |-> "nil"]

\* Variant of DatabaseCallsFn that builds the configuration afresh instead
\* of updating the one it is given.
DatabaseCallsFnFresh(databasePlatform, config) ==
    [SpanType |-> Internal, DatabasePlatform |-> databasePlatform,
     ExternalURL |-> ""]

\* Body of the closure built by DatabaseCalls.
DatabaseCallsFn(databasePlatform, config) ==
    [config EXCEPT !.SpanType = Internal,
                   !.DatabasePlatform = databasePlatform]

\* Variant of ExternalCallsFn that sets the Client span type.
ExternalCallsFnClient(externalURL, config) ==
    [config EXCEPT !.SpanType = Client,
                   !.ExternalURL = externalURL]

\* Body of the closure built by ExternalCalls.
ExternalCallsFn(externalURL, config) ==
    [config EXCEPT !.SpanType = Server,
                   !.ExternalURL = externalURL]

\* config.apply: run the closure on the configuration.
apply(opt, config) ==
    IF opt.fn = "DatabaseCalls"
    THEN DatabaseCallsFn(opt.databasePlatform, config)
    ELSE ExternalCallsFn(opt.externalURL, config)

\* The loop  for _, opt := range opts { cfg = opt.apply(cfg) }  of CreateSpan.
RECURSIVE FoldOptions(_, _)
FoldOptions(opts, config) ==
    IF opts = <<>> THEN config
    ELSE FoldOptions(Tail(opts), apply(Head(opts), config))

\* A Go slice of KeyValue: nil, or its elements.
NilSlice == [isNil |-> TRUE, elems |-> <<>>]
Slice(elems) == [isNil |-> FALSE, elems |-> elems]

KeyValue(key, value) == [Key |-> key, Value |-> value]

\* getSpanTypeAttributes; NilConfig is the nil *spanTypeConfig.
NilConfig == [isNilPointer |-> TRUE]

\* Variant of getSpanTypeAttributes without the Server case.
getSpanTypeAttributesNoServer(spanTypeConfig) ==
    IF spanTypeConfig = NilConfig THEN NilSlice
    ELSE IF spanTypeConfig.SpanType = Internal
         THEN Slice(<<KeyValue(DBSystemKey, spanTypeConfig.DatabasePlatform)>>)
    ELSE Slice(<<>>)

\* Variant of getSpanTypeAttributes that emits every field that is set,
\* whatever the span type.
getSpanTypeAttributesMerged(spanTypeConfig) ==
    IF spanTypeConfig = NilConfig THEN NilSlice
    ELSE Slice(
        (IF spanTypeConfig.DatabasePlatform # ""
         THEN <<KeyValue(DBSystemKey, spanTypeConfig.DatabasePlatform)>>
         ELSE <<>>)
        \o
        (IF spanTypeConfig.SpanType = Server \/ spanTypeConfig.ExternalURL # ""
         THEN <<KeyValue(HTTPURLKey, spanTypeConfig.ExternalURL)>>
         ELSE <<>>))

getSpanTypeAttributes(spanTypeConfig) ==
    IF spanTypeConfig = NilConfig THEN NilSlice
    ELSE IF spanTypeConfig.SpanType = Internal
         THEN Slice(<<KeyValue(DBSystemKey, spanTypeConfig.DatabasePlatform)>>)
    ELSE IF spanTypeConfig.SpanType = Server
         THEN Slice(<<KeyValue(HTTPURLKey, spanTypeConfig.ExternalURL)>>)
    ELSE Slice(<<>>)

----------------------------------------------------------------------------
(* signoz.go: helpers *)

\* attribute.String(k, v)
AttributeString(key, value) ==
    [Key |-> key, Value |-> [Type |-> "STRING", AsString |-> value]]

\* The loop of SetAttributes / AddEvent converting []KeyValue.
ConvertKeyValues(keyValue) ==
    [i \in 1..Len(keyValue.elems) |->
        AttributeString(keyValue.elems[i].Key, keyValue.elems[i].Value)]

\* The call signoz.SetAttributes makes on the span.
SpanSetAttributes(keyValue) ==
    [method |-> "SetAttributes", kv |-> ConvertKeyValues(keyValue)]

\* The call signoz.AddEvent makes on the span.
SpanAddEvent(name, keyValue) ==
    [method |-> "AddEvent", name |-> name,
     attributes |-> ConvertKeyValues(keyValue)]

\* span.SetStatus(codes.Error, err.Error()); span.RecordError(err)
SpanSetStatusError(err) ==
    [method |-> "SetStatus", code |-> "Error", description |-> err.msg]

SpanRecordError(err) == [method |-> "RecordError", err |-> err.msg]

SpanEnd == [method |-> "End"]

\* Go error values: nil, or an error whose Error() is msg.
NilError == [isNil |-> TRUE]
ErrorOf(msg) == [isNil |-> FALSE, msg |-> msg]

\* context.Background() carries no span; context k carries spans[k].
Background == 0

\* Deliver calls to the span carried by a context (trace.SpanFromContext) or
\* given directly; the no-op span of a span-less context discards them.
Deliver(ss, k, calls) ==
    IF k = Background THEN ss
    ELSE [ss EXCEPT ![k].calls = @ \o calls]

\* strings.ToLower on ASCII: an upper-case letter becomes its lower-case
\* letter, every other character is kept.
UpperCase == <<"A", "B", "C", "D", "E", "F", "G", "H", "I", "J", "K", "L", "M",
               "N", "O", "P", "Q", "R", "S", "T", "U", "V", "W", "X", "Y", "Z">>
LowerCase == <<"a", "b", "c", "d", "e", "f", "g", "h", "i", "j", "k", "l", "m",
               "n", "o", "p", "q", "r", "s", "t", "u", "v", "w", "x", "y", "z">>

ToLowerRune(c) ==
    IF \E k \in 1..Len(UpperCase) : UpperCase[k] = c
    THEN LowerCase[CHOOSE k \in 1..Len(UpperCase) : UpperCase[k] = c]
    ELSE c

ToLower(s) == [i \in 1..Len(s) |-> ToLowerRune(s[i])]

\* Variant of SecureOption that compares "f" without lower-casing.
SecureOptionCaseSensitive(insecure) ==
    IF \/ ToLower(insecure) = <<"f", "a", "l", "s", "e">>
       \/ insecure = <<"0">>
       \/ insecure = <<"f">>
    THEN "WithTLSCredentials"
    ELSE "WithInsecure"

\* The condition of InitTracer choosing the transport credentials.
SecureOption(insecure) ==
    IF \/ ToLower(insecure) = <<"f", "a", "l", "s", "e">>
       \/ insecure = <<"0">>
       \/ ToLower(insecure) = <<"f">>
    THEN "WithTLSCredentials"
    ELSE "WithInsecure"

\* strconv.Itoa
Digit(d) ==
    CASE d = 0 -> "0" [] d = 1 -> "1" [] d = 2 -> "2" [] d = 3 -> "3"
      [] d = 4 -> "4" [] d = 5 -> "5" [] d = 6 -> "6" [] d = 7 -> "7"
      [] d = 8 -> "8" [] d = 9 -> "9"

RECURSIVE FormatUint(_)
FormatUint(n) ==
    IF n < 10 THEN Digit(n) ELSE FormatUint(n \div 10) \o Digit(n % 10)

Itoa(n) == IF n < 0 THEN "-" \o FormatUint(-n) ELSE FormatUint(n)

\* json.Marshal on the values the model passes as data / errors: nil, a
\* plain string, an int, and a channel (which encoding/json rejects with an
\* UnsupportedTypeError).
JSONNil == [type |-> "nil"]
JSONString(s) == [type |-> "string", s |-> s]
JSONInt(n) == [type |-> "int", n |-> n]
JSONChan == [type |-> "chan"]
JSONFunc == [type |-> "func"]

Marshal(v) ==
    CASE v.type = "nil"    -> [err |-> NilError, bytes |-> "null"]
      [] v.type = "string" -> [err |-> NilError, bytes |-> "\"" \o v.s \o "\""]
      [] v.type = "int"    -> [err |-> NilError, bytes |-> Itoa(v.n)]
      [] v.type = "chan"   ->
            [err |-> ErrorOf("json: unsupported type: chan int"), bytes |-> ""]
      [] v.type = "func"   ->
            [err |-> ErrorOf("json: unsupported type: func()"), bytes |-> ""]

\* otel.Tracer(name): the handle of the tracer registered under name.
NilTracer == [isNil |-> TRUE]
OtelTracer(name) == [isNil |-> FALSE, name |-> name]

NilProvider == [isNil |-> TRUE]

\* No public operation has run yet.
NoCall == [op |-> "none"]

----------------------------------------------------------------------------
(* signoz.go: the public operations *)

Init ==
    /\ alive = TRUE
    /\ tracer = NilTracer
    /\ provider = NilProvider
    /\ instances = <<>>
    /\ spans = <<>>
    /\ lastCall = NoCall
    /\ steps = 0

\* Common guard: the process runs and the run is within its bound.
Running == alive /\ steps < MaxSteps

New(cfg) ==
    /\ Running
    /\ Len(instances) < MaxInstances
    /\ tracer' = OtelTracer(cfg.ServiceName)
    /\ instances' = Append(instances,
                           [serviceName |-> cfg.ServiceName,
                            collectorURL |-> cfg.CollectorURL,
                            insecure |-> cfg.Insecure])
    /\ lastCall' = [op |-> "New", inst |-> Len(instances) + 1, cfg |-> cfg]
    /\ steps' = steps + 1
    /\ UNCHANGED <<alive, provider, spans>>

\* exporterFails / resourceFails: whether otlptrace.New / resource.New
\* return an error.
InitTracer(i, exporterFails, resourceFails) ==
    /\ Running
    /\ i \in 1..Len(instances)
    /\ LET s == instances[i]
           secureOption == SecureOption(s.insecure)
           call == [op |-> "InitTracer", inst |-> i,
                    secureOption |-> secureOption]
       IN  IF exporterFails
           THEN /\ alive' = FALSE
                /\ provider' = provider
                /\ lastCall' = call @@ [fatal |-> "Failed to create exporter"]
           ELSE IF resourceFails
           THEN /\ alive' = FALSE
                /\ provider' = provider
                /\ lastCall' = call @@ [fatal |-> "Could not set resources"]
           ELSE /\ alive' = alive
                /\ provider' =
                      [isNil |-> FALSE,
                       exporter |-> [secureOption |-> secureOption,
                                     endpoint |-> s.collectorURL],
                       resource |-> [serviceName |-> s.serviceName,
                                     libraryLanguage |-> "go"]]
                /\ lastCall' = call @@ [fatal |-> ""]
    /\ steps' = steps + 1
    /\ UNCHANGED <<tracer, instances, spans>>

\* Variant of CreateSpanCalls that attaches the attributes before marking
\* the span as failed.
CreateSpanCallsAttributesFirst(err, spanTypeConfig) ==
    LET attributes == getSpanTypeAttributes(spanTypeConfig)
    IN  (IF ~attributes.isNil
         THEN <<SpanSetAttributes(attributes)>>
         ELSE <<>>)
        \o
        (IF err # NilError
         THEN <<SpanSetStatusError(err), SpanRecordError(err)>>
         ELSE <<>>)

\* The calls CreateSpan makes on the span it started, in order.
CreateSpanCalls(err, spanTypeConfig) ==
    LET attributes == getSpanTypeAttributes(spanTypeConfig)
    IN  (IF err # NilError
         THEN <<SpanSetStatusError(err), SpanRecordError(err)>>
         ELSE <<>>)
        \o
        (IF ~attributes.isNil
         THEN <<SpanSetAttributes(attributes)>>
         ELSE <<>>)

\* tracer.Start(ctx, spanName, trace.WithSpanKind(kind))
StartSpan(ctx, spanName, kind) ==
    [tracer |-> tracer, spanName |-> spanName, kind |-> kind,
     parent |-> ctx, calls |-> <<>>]

CreateSpan(i, ctx, spanName, err, opts) ==
    /\ Running
    /\ i \in 1..Len(instances)
    /\ ctx \in 0..Len(spans)
    /\ Len(spans) < MaxSpans
    /\ LET call == [op |-> "CreateSpan", inst |-> i, ctx |-> ctx,
                    spanName |-> spanName, err |-> err, opts |-> opts]
       IN  IF \E k \in 1..Len(opts) : opts[k] = NilOption
           THEN \* opt.apply on a nil interface value panics in the loop
                /\ alive' = FALSE
                /\ spans' = spans
                /\ lastCall' = call @@ [panicked |-> TRUE]
           ELSE LET spanTypeConfig == FoldOptions(opts, DefaultConfig)
                    span == StartSpan(ctx, spanName,
                                      spanTypeMapper(spanTypeConfig.SpanType))
                IN  /\ alive' = alive
                    /\ spans' = Append(spans,
                          [span EXCEPT !.calls =
                              CreateSpanCalls(err, spanTypeConfig)])
                    /\ lastCall' = call @@
                          [panicked |-> FALSE,
                           spanTypeConfig |-> spanTypeConfig,
                           span |-> Len(spans) + 1]
    /\ steps' = steps + 1
    /\ UNCHANGED <<tracer, provider, instances>>

EndSpan(span) ==
    /\ Running
    /\ Len(instances) > 0
    /\ span \in 1..Len(spans)
    /\ spans' = Deliver(spans, span, <<SpanEnd>>)
    /\ lastCall' = [op |-> "EndSpan", span |-> span]
    /\ steps' = steps + 1
    /\ UNCHANGED <<alive, tracer, provider, instances>>

SetErrorSpan(span, err) ==
    /\ Running
    /\ Len(instances) > 0
    /\ span \in 1..Len(spans)
    /\ IF err = NilError
       THEN \* err.Error() on a nil error panics
            /\ alive' = FALSE
            /\ spans' = spans
       ELSE /\ alive' = alive
            /\ spans' = Deliver(spans, span,
                    <<SpanSetStatusError(err), SpanRecordError(err)>>)
    /\ lastCall' = [op |-> "SetErrorSpan", span |-> span, err |-> err]
    /\ steps' = steps + 1
    /\ UNCHANGED <<tracer, provider, instances>>

SetAttributes(span, keyValue) ==
    /\ Running
    /\ Len(instances) > 0
    /\ span \in 1..Len(spans)
    /\ spans' = Deliver(spans, span, <<SpanSetAttributes(keyValue)>>)
    /\ lastCall' = [op |-> "SetAttributes", span |-> span,
                    keyValue |-> keyValue]
    /\ steps' = steps + 1
    /\ UNCHANGED <<alive, tracer, provider, instances>>

AddEvent(span, name, keyValue) ==
    /\ Running
    /\ Len(instances) > 0
    /\ span \in 1..Len(spans)
    /\ spans' = Deliver(spans, span, <<SpanAddEvent(name, keyValue)>>)
    /\ lastCall' = [op |-> "AddEvent", span |-> span, name |-> name,
                    keyValue |-> keyValue]
    /\ steps' = steps + 1
    /\ UNCHANGED <<alive, tracer, provider, instances>>

\* Variant of RequestEvent that also puts the user id in the event.
RequestEventWithUser(token, userId, queryParam, payload) ==
    Slice(<<KeyValue("Token", token),
            KeyValue("User Id", userId),
            KeyValue("Query Param", queryParam),
            KeyValue("Payload", payload)>>)

\* keyValueEvent and keyValueAttributes of TraceHttpRequest
RequestEvent(token, userId, queryParam, payload) ==
    Slice(<<KeyValue("Token", token),
            KeyValue("Query Param", queryParam),
            KeyValue("Payload", payload)>>)

RequestAttributes(token, userId, queryParam, payload) ==
    Slice(<<KeyValue("userId", userId)>>)

TraceHttpRequest(ctx, token, userId, queryParam, payload) ==
    /\ Running
    /\ Len(instances) > 0
    /\ ctx \in 0..Len(spans)
    /\ spans' = Deliver(spans, ctx,
          <<SpanAddEvent("Request",
                RequestEvent(token, userId, queryParam, payload)),
            SpanSetAttributes(
                RequestAttributes(token, userId, queryParam, payload))>>)
    /\ lastCall' = [op |-> "TraceHttpRequest", ctx |-> ctx, token |-> token,
                    userId |-> userId, queryParam |-> queryParam,
                    payload |-> payload]
    /\ steps' = steps + 1
    /\ UNCHANGED <<alive, tracer, provider, instances>>

\* keyValue of TraceHttpResponse
ResponseEvent(code, message, dataString, errorsString) ==
    Slice(<<KeyValue("Code", Itoa(code)),
            KeyValue("Message", message),
            KeyValue("Data", dataString),
            KeyValue("Errors", errorsString)>>)

\* Variant of MarshalBoth that does not check the error of the second
\* json.Marshal.
MarshalBothUnchecked(data, errors) ==
    LET d == Marshal(data)
        e == Marshal(errors)
    IN  IF d.err # NilError
        THEN [fatal |-> d.err, dataString |-> "", errorsString |-> ""]
        ELSE [fatal |-> NilError, dataString |-> d.bytes,
              errorsString |-> e.bytes]

\* The two json.Marshal calls of TraceHttpResponse with their log.Fatal:
\* the error that ends the process (NilError when neither fails) and the
\* two serialised texts.
MarshalBoth(data, errors) ==
    LET d == Marshal(data)
        e == Marshal(errors)
    IN  IF d.err # NilError
        THEN [fatal |-> d.err, dataString |-> "", errorsString |-> ""]
        ELSE IF e.err # NilError
        THEN [fatal |-> e.err, dataString |-> d.bytes, errorsString |-> ""]
        ELSE [fatal |-> NilError, dataString |-> d.bytes,
              errorsString |-> e.bytes]

TraceHttpResponse(ctx, code, message, data, errors) ==
    /\ Running
    /\ Len(instances) > 0
    /\ ctx \in 0..Len(spans)
    /\ LET m == MarshalBoth(data, errors)
       IN  /\ IF m.fatal # NilError
              THEN /\ alive' = FALSE
                   /\ spans' = spans
              ELSE /\ alive' = alive
                   /\ spans' = Deliver(spans, ctx,
                         <<SpanAddEvent("Response",
                              ResponseEvent(code, message, m.dataString,
                                            m.errorsString))>>)
           /\ lastCall' = [op |-> "TraceHttpResponse", ctx |-> ctx,
                           code |-> code, message |-> message,
                           data |-> data, errors |-> errors,
                           fatal |-> m.fatal]
    /\ steps' = steps + 1
    /\ UNCHANGED <<tracer, provider, instances>>

----------------------------------------------------------------------------
(* Inputs of the operations *)

ServiceNames == {"svcA", "svcB"}
CollectorURL == "collector:4317"

Str_false == <<"f", "a", "l", "s", "e">>
Str_true == <<"t", "r", "u", "e">>

Configs(insecureValues) ==
    [ServiceName : ServiceNames, CollectorURL : {CollectorURL},
     Insecure : insecureValues]

Errors == {NilError, ErrorOf("boom")}

ExampleURL == "https://example.com"

\* Option lists of the lifecycle specification.
SomeOptions ==
    {<<>>, <<DatabaseCalls(MySQL)>>, <<ExternalCalls(ExampleURL)>>,
     <<ExternalCalls(ExampleURL), DatabaseCalls(Redis)>>, <<NilOption>>}

KeyValueSlices == {NilSlice, Slice(<<KeyValue("k", "v")>>)}

Codes == {200, 0, -1}
JSONValues == {JSONString("ok"), JSONInt(7), JSONChan}
JSONErrors == {JSONNil, JSONFunc}

Next ==
    \/ \E cfg \in Configs({Str_false, Str_true}) : New(cfg)
    \/ \E i \in 1..MaxInstances, ef, rf \in BOOLEAN :
          /\ ~(ef /\ rf)
          /\ InitTracer(i, ef, rf)
    \/ \E i \in 1..MaxInstances, ctx \in 0..MaxSpans, err \in Errors,
          opts \in SomeOptions :
          CreateSpan(i, ctx, "span", err, opts)
    \/ \E span \in 1..MaxSpans : EndSpan(span)
    \/ \E span \in 1..MaxSpans, err \in Errors : SetErrorSpan(span, err)
    \/ \E span \in 1..MaxSpans, kv \in KeyValueSlices :
          SetAttributes(span, kv)
    \/ \E span \in 1..MaxSpans, kv \in KeyValueSlices :
          AddEvent(span, "event", kv)
    \/ \E ctx \in 0..MaxSpans :
          TraceHttpRequest(ctx, "tok", "user-1", "q=1", "{}")
    \/ \E ctx \in 0..MaxSpans, code \in Codes, data \in JSONValues,
          errors \in JSONErrors :
          TraceHttpResponse(ctx, code, "msg", data, errors)

Spec == Init /\ [][Next]_vars

----------------------------------------------------------------------------
(* The classifier on its own: one CreateSpan call on a freshly constructed *)
(* instance, over every option list of at most MaxOpts options.            *)

DatabasePlatforms == {Other, MySQL, MariaDB, Redis}
ExternalURLs == {ExampleURL, ""}

Options ==
    {DatabaseCalls(p) : p \in DatabasePlatforms}
    \cup {ExternalCalls(u) : u \in ExternalURLs}
    \cup {NilOption}

OptionLists == UNION {[1..n -> Options] : n \in 0..MaxOpts}

\* The state New(cfg) leaves a fresh process in.
AfterNew(cfg) ==
    /\ alive = TRUE
    /\ tracer = OtelTracer(cfg.ServiceName)
    /\ provider = NilProvider
    /\ instances = <<[serviceName |-> cfg.ServiceName,
                      collectorURL |-> cfg.CollectorURL,
                      insecure |-> cfg.Insecure]>>
    /\ spans = <<>>
    /\ lastCall = [op |-> "New", inst |-> 1, cfg |-> cfg]
    /\ steps = 1

InitClassify == \E cfg \in Configs({Str_true}) : AfterNew(cfg)

NextClassify ==
    \E err \in Errors, opts \in OptionLists :
        /\ spans = <<>>
        /\ CreateSpan(1, Background, "span", err, opts)

SpecClassify == InitClassify /\ [][NextClassify]_vars

----------------------------------------------------------------------------
(* The insecure flag on its own: InitTracer on an instance constructed     *)
(* with each flag value.                                                   *)

FalseVariants ==
    {<<a, b, c, d, e>> : a \in {"f", "F"}, b \in {"a", "A"},
                         c \in {"l", "L"}, d \in {"s", "S"},
                         e \in {"e", "E"}}

InsecureChars == {"f", "F", "0", "1", "t", "T", "e", " "}

ShortStrings == UNION {[1..n -> InsecureChars] : n \in 0..MaxInsecureLen}

InsecureValues ==
    FalseVariants \cup ShortStrings
    \cup {Str_true, <<"T", "R", "U", "E">>, <<"y", "e", "s">>,
          <<"Y", "E", "S">>, <<"N">>,
          <<"f", "a", "l", "s">>, <<"f", "a", "l", "s", "e", "0">>,
          <<" ", "f", "a", "l", "s", "e">>, <<"n", "o">>}

InitInsecure == \E cfg \in Configs(InsecureValues) : AfterNew(cfg)

NextInsecure ==
    \E ef, rf \in BOOLEAN :
        /\ ~(ef /\ rf)
        /\ InitTracer(1, ef, rf)

SpecInsecure == InitInsecure /\ [][NextInsecure]_vars

----------------------------------------------------------------------------
(* Views of the state used by the properties below *)

\* The last operation was a CreateSpan that returned a span.
Created == lastCall.op = "CreateSpan" /\ ~lastCall.panicked

\* The attributes set on a span: the arguments of its SetAttributes calls.
RECURSIVE AttributesOf(_)
AttributesOf(calls) ==
    IF calls = <<>> THEN <<>>
    ELSE (IF Head(calls).method = "SetAttributes" THEN Head(calls).kv
          ELSE <<>>) \o AttributesOf(Tail(calls))

\* The events of a given name added to a span.
EventsOf(calls, name) ==
    SelectSeq(calls, LAMBDA c : c.method = "AddEvent" /\ c.name = name)

StringAttribute(key, value) ==
    [Key |-> key, Value |-> [Type |-> "STRING", AsString |-> value]]

IsDatabaseThenExternal(opts) ==
    /\ Len(opts) = 2
    /\ opts[1].fn = "DatabaseCalls"
    /\ opts[2].fn = "ExternalCalls"

IsExternalThenDatabase(opts) ==
    /\ Len(opts) = 2
    /\ opts[1].fn = "ExternalCalls"
    /\ opts[2].fn = "DatabaseCalls"

----------------------------------------------------------------------------
(* C1 *)

\* C1 as stated: after ExternalCalls(u) then DatabaseCalls(p), or
\* DatabaseCalls(p) then ExternalCalls(u), the folded configuration equals
\* the configuration obtained from the default by the last option alone.
C1_OnlyLastOption ==
    Created =>
        LET opts == lastCall.opts
            cfg == lastCall.spanTypeConfig
        IN  /\ IsExternalThenDatabase(opts) =>
                  cfg = [SpanType |-> Internal,
                         DatabasePlatform |-> opts[2].databasePlatform,
                         ExternalURL |-> ""]
            /\ IsDatabaseThenExternal(opts) =>
                  cfg = [SpanType |-> Server,
                         DatabasePlatform |-> "",
                         ExternalURL |-> opts[2].externalURL]

\* C1 amended: the fold is left to right; SpanType and the field the last
\* option writes are those of the last option, and the field only the
\* earlier option wrote keeps the earlier option's value.
C1_LeftToRightFold ==
    Created =>
        LET opts == lastCall.opts
            cfg == lastCall.spanTypeConfig
        IN  /\ IsExternalThenDatabase(opts) =>
                  cfg = [SpanType |-> Internal,
                         DatabasePlatform |-> opts[2].databasePlatform,
                         ExternalURL |-> opts[1].externalURL]
            /\ IsDatabaseThenExternal(opts) =>
                  cfg = [SpanType |-> Server,
                         DatabasePlatform |-> opts[1].databasePlatform,
                         ExternalURL |-> opts[2].externalURL]

C1_Witness ==
    /\ Created
    /\ lastCall.opts = <<ExternalCalls(ExampleURL), DatabaseCalls(MySQL)>>
    /\ lastCall.spanTypeConfig =
          [SpanType |-> Internal, DatabasePlatform |-> "mysql",
           ExternalURL |-> "https://example.com"]

----------------------------------------------------------------------------
(* C2 *)

\* C2: the attributes on the span returned by CreateSpan are decided by the
\* final SpanType of the folded configuration: Internal gives exactly
\* db.system = the configured platform, Server gives exactly http.url = the
\* configured URL, anything else (the empty option list included) gives no
\* attribute; keys and values arrive as the same strings.
C2_AttributesBySpanType ==
    Created =>
        LET cfg == lastCall.spanTypeConfig
            attrs == AttributesOf(spans[lastCall.span].calls)
        IN  /\ cfg.SpanType = Internal =>
                  attrs = <<StringAttribute("db.system", cfg.DatabasePlatform)>>
            /\ cfg.SpanType = Server =>
                  attrs = <<StringAttribute("http.url", cfg.ExternalURL)>>
            /\ cfg.SpanType \notin {Internal, Server} => attrs = <<>>
            /\ lastCall.opts = <<>> => attrs = <<>>
            /\ Len(lastCall.opts) = 1 /\ lastCall.opts[1].fn = "DatabaseCalls"
                  => attrs = <<StringAttribute("db.system",
                                   lastCall.opts[1].databasePlatform)>>
            /\ Len(lastCall.opts) = 1 /\ lastCall.opts[1].fn = "ExternalCalls"
                  => attrs = <<StringAttribute("http.url",
                                   lastCall.opts[1].externalURL)>>

C2_Witness ==
    /\ Created
    /\ lastCall.opts = <<DatabaseCalls(MariaDB)>>
    /\ AttributesOf(spans[lastCall.span].calls) =
          <<StringAttribute("db.system", "mariadb")>>

----------------------------------------------------------------------------
(* C3 *)

KindTable ==
    (Unspecified :> "SpanKindUnspecified") @@ (Internal :> "SpanKindInternal")
    @@ (Server :> "SpanKindServer") @@ (Client :> "SpanKindClient")
    @@ (Producer :> "SpanKindProducer") @@ (Consumer :> "SpanKindConsumer")

\* C3: the span is started with the kind of the same name as the final
\* SpanType; the lookup is one-to-one over the whole enumeration; no option
\* gives Unspecified, one DatabaseCalls gives Internal, one ExternalCalls
\* gives Server.
C3_KindBySpanType ==
    /\ \A t \in SpanType : spanTypeMapper(t) = KindTable[t]
    /\ \A t, u \in SpanType : spanTypeMapper(t) = spanTypeMapper(u) => t = u
    /\ Created =>
          LET kind == spans[lastCall.span].kind
              opts == lastCall.opts
          IN  /\ kind = KindTable[lastCall.spanTypeConfig.SpanType]
              /\ opts = <<>> => kind = "SpanKindUnspecified"
              /\ Len(opts) = 1 /\ opts[1].fn = "DatabaseCalls"
                    => kind = "SpanKindInternal"
              /\ Len(opts) = 1 /\ opts[1].fn = "ExternalCalls"
                    => kind = "SpanKindServer"

C3_Witness ==
    /\ Created
    /\ lastCall.opts = <<ExternalCalls(ExampleURL)>>
    /\ spans[lastCall.span].kind = "SpanKindServer"

----------------------------------------------------------------------------
(* C4 *)

\* The flag values the specification lists as selecting TLS: every
\* capitalisation of "false", "0", "f" and "F".
TLSValues == FalseVariants \cup {<<"0">>, <<"f">>, <<"F">>}

\* C4: InitTracer selects the TLS credentials exactly when the instance's
\* insecure string is "false" or "f" in any capitalisation, or "0"; every
\* other string ("true", "", "yes", "1", ...) selects the plaintext
\* transport; the provider it installs uses the selected transport.
C4_TLSExactlyOnFalse0F ==
    lastCall.op = "InitTracer" =>
        LET insecure == instances[lastCall.inst].insecure
        IN  /\ lastCall.secureOption \in {"WithTLSCredentials", "WithInsecure"}
            /\ lastCall.secureOption = "WithTLSCredentials"
                  <=> insecure \in TLSValues
            /\ insecure \in {Str_true, <<>>, <<"y", "e", "s">>, <<"1">>}
                  => lastCall.secureOption = "WithInsecure"
            /\ lastCall.fatal = ""
                  => provider.exporter.secureOption = lastCall.secureOption

C4_Witness ==
    /\ lastCall.op = "InitTracer"
    /\ instances[lastCall.inst].insecure = <<"F", "A", "L", "S", "E">>
    /\ lastCall.fatal = ""
    /\ provider.exporter.secureOption = "WithTLSCredentials"

----------------------------------------------------------------------------
(* C5 *)

\* C5: on the span CreateSpan returns, a non-nil error gives SetStatus(Error,
\* message) and RecordError as the first calls after the start, ahead of
\* every SetAttributes call; a nil error gives no SetStatus and no
\* RecordError call at all.
C5_ErrorBeforeAttributes ==
    Created =>
        LET calls == spans[lastCall.span].calls
            err == lastCall.err
        IN  /\ err # NilError =>
                  /\ Len(calls) >= 2
                  /\ calls[1] = [method |-> "SetStatus", code |-> "Error",
                                  description |-> err.msg]
                  /\ calls[2] = [method |-> "RecordError", err |-> err.msg]
                  /\ \A k \in 1..Len(calls) :
                        calls[k].method = "SetAttributes" => k > 2
                  /\ \A k \in 3..Len(calls) :
                        calls[k].method \notin {"SetStatus", "RecordError"}
            /\ err = NilError =>
                  \A k \in 1..Len(calls) :
                      calls[k].method \notin {"SetStatus", "RecordError"}

C5_Witness ==
    /\ Created
    /\ lastCall.err = ErrorOf("boom")
    /\ lastCall.opts = <<DatabaseCalls(MySQL)>>
    /\ Len(spans[lastCall.span].calls) = 3
    /\ spans[lastCall.span].calls[1].method = "SetStatus"
    /\ spans[lastCall.span].calls[3].method = "SetAttributes"

----------------------------------------------------------------------------
(* C6 *)

\* The calls an operation added to span k in the step just taken.
Added(k) == SubSeq(spans'[k].calls, Len(spans[k].calls) + 1,
                   Len(spans'[k].calls))

AttributeValues(attributes) ==
    {attributes[i].Value.AsString : i \in 1..Len(attributes)}

\* C6 as stated: TraceHttpRequest adds exactly one "Request" event to the
\* span of the context, whose attributes carry token, userId, queryParam
\* and payload, and sets a span attribute carrying userId.
C6_EventCarriesFourFields ==
    [][lastCall'.op = "TraceHttpRequest" /\ lastCall'.ctx # Background =>
        LET c == lastCall'
            added == Added(c.ctx)
            events == EventsOf(added, "Request")
        IN  /\ Len(events) = 1
            /\ {c.token, c.userId, c.queryParam, c.payload}
                  \subseteq AttributeValues(events[1].attributes)
            /\ c.userId \in AttributeValues(AttributesOf(added))
      ]_vars

\* C6 amended: the "Request" event carries three fields, Token, Query Param
\* and Payload; userId is not in the event and is carried only by the
\* span-level attribute userId.
C6_EventCarriesThreeFields ==
    [][lastCall'.op = "TraceHttpRequest" /\ lastCall'.ctx # Background =>
        LET c == lastCall'
            added == Added(c.ctx)
        IN  /\ added =
                  << [method |-> "AddEvent", name |-> "Request",
                      attributes |->
                        <<StringAttribute("Token", c.token),
                          StringAttribute("Query Param", c.queryParam),
                          StringAttribute("Payload", c.payload)>>],
                     [method |-> "SetAttributes",
                      kv |-> <<StringAttribute("userId", c.userId)>>] >>
            /\ \A k \in 1..Len(spans) :
                  k # c.ctx => spans'[k] = spans[k]
      ]_vars

C6_Witness ==
    /\ lastCall.op = "TraceHttpRequest"
    /\ lastCall.ctx # Background
    /\ Len(EventsOf(spans[lastCall.ctx].calls, "Request")) = 1
    /\ AttributesOf(spans[lastCall.ctx].calls) =
          <<StringAttribute("userId", "user-1")>>

----------------------------------------------------------------------------
(* C7 *)

\* The values json.Marshal rejects, the texts it produces for the others,
\* and the decimal texts of the response codes, written out.
Unserialisable == {JSONChan, JSONFunc}

SerialisedText(v) ==
    CASE v = JSONNil          -> "null"
      [] v = JSONString("ok") -> "\"ok\""
      [] v = JSONInt(7)       -> "7"

DecimalText(code) ==
    CASE code = 200 -> "200"
      [] code = 0   -> "0"
      [] code = -1  -> "-1"
      [] code = 404 -> "404"

\* C7: if data or errors cannot be serialised the process is ended and the
\* step adds no call to any span (data is serialised first, so its failure
\* is the one reported); otherwise the step adds exactly one "Response"
\* event to the span of the context, with attributes Code (decimal text),
\* Message, Data and Errors (the serialised texts), and nothing else.
C7_FatalOrOneResponseEvent ==
    [][lastCall'.op = "TraceHttpResponse" =>
        LET c == lastCall'
        IN  /\ c.data \in Unserialisable \/ c.errors \in Unserialisable =>
                  /\ alive' = FALSE
                  /\ spans' = spans
                  /\ c.fatal # NilError
                  /\ c.data \in Unserialisable =>
                        c.fatal = Marshal(c.data).err
            /\ c.data \notin Unserialisable /\ c.errors \notin Unserialisable =>
                  /\ alive' = TRUE
                  /\ c.fatal = NilError
                  /\ c.ctx # Background =>
                        Added(c.ctx) =
                          << [method |-> "AddEvent", name |-> "Response",
                              attributes |->
                                <<StringAttribute("Code", DecimalText(c.code)),
                                  StringAttribute("Message", c.message),
                                  StringAttribute("Data", SerialisedText(c.data)),
                                  StringAttribute("Errors",
                                                  SerialisedText(c.errors))>>] >>
                  /\ \A k \in 1..Len(spans) :
                        k # c.ctx => spans'[k] = spans[k]
      ]_vars

C7_Witness ==
    /\ lastCall.op = "TraceHttpResponse"
    /\ lastCall.ctx # Background
    /\ lastCall.data = JSONString("ok")
    /\ lastCall.errors = JSONFunc
    /\ ~alive
    /\ EventsOf(spans[lastCall.ctx].calls, "Response") = <<>>

----------------------------------------------------------------------------
(* C8 *)

\* C8 as stated: once assigned, the tracer handle is never assigned a
\* different tracer, and a span created through an instance is started on
\* the tracer of that instance's service name.
C8_TracerAssignedOnce ==
    [][/\ tracer # NilTracer => tracer' = tracer
       /\ lastCall'.op = "CreateSpan" /\ ~lastCall'.panicked =>
             spans'[lastCall'.span].tracer =
                OtelTracer(instances[lastCall'.inst].serviceName)
      ]_vars

----------------------------------------------------------------------------
(* C9 *)

\* C9: for a non-empty list of DatabaseCalls / ExternalCalls options, the
\* kind and the attributes of the created span are those the last option
\* alone gives; no value written by an earlier option is among them.
C9_LastOptionDecides ==
    Created /\ lastCall.opts # <<>> =>
        LET opts == lastCall.opts
            last == opts[Len(opts)]
            alone == FoldOptions(<<last>>, DefaultConfig)
            span == spans[lastCall.span]
            attrs == AttributesOf(span.calls)
        IN  /\ span.kind = spanTypeMapper(alone.SpanType)
            /\ attrs = ConvertKeyValues(getSpanTypeAttributes(alone))
            /\ Len(attrs) = 1
            /\ last.fn = "DatabaseCalls" =>
                  attrs[1].Value.AsString = last.databasePlatform
            /\ last.fn = "ExternalCalls" =>
                  attrs[1].Value.AsString = last.externalURL

C9_Witness ==
    /\ Created
    /\ lastCall.opts = <<DatabaseCalls(Redis), ExternalCalls(ExampleURL)>>
    /\ spans[lastCall.span].kind = "SpanKindServer"
    /\ AttributesOf(spans[lastCall.span].calls) =
          <<StringAttribute("http.url", ExampleURL)>>

----------------------------------------------------------------------------
(* C10 *)

\* C10: every configuration the fold passes through, from the default to
\* the final one, has SpanType Unspecified, Internal or Server, and no span
\* has kind Client, Producer or Consumer.
C10_OnlyThreeSpanTypes ==
    /\ Created =>
          \A n \in 0..Len(lastCall.opts) :
              FoldOptions(SubSeq(lastCall.opts, 1, n), DefaultConfig).SpanType
                  \in {Unspecified, Internal, Server}
    /\ Created =>
          lastCall.spanTypeConfig.SpanType \in {Unspecified, Internal, Server}
    /\ \A k \in 1..Len(spans) :
          spans[k].kind \notin
              {"SpanKindClient", "SpanKindProducer", "SpanKindConsumer"}

C10_Witness ==
    /\ Created
    /\ Len(lastCall.opts) = 2
    /\ lastCall.spanTypeConfig.SpanType = Server
    /\ spans[lastCall.span].kind = "SpanKindServer"

====
